---- MODULE Spec2Model ----
(***************************************************************************)
(* A model of pdfanon's reversible pseudonymization engine:                *)
(*   - MappingStore            (src/src/pdfanon/faker/mapping.py)          *)
(*   - DeterministicFakeGenerator (src/src/pdfanon/faker/generator.py)     *)
(*   - Anonymizer              (src/src/pdfanon/core/anonymizer.py)        *)
(* A Python str is a sequence of one-character strings; a Python dict is   *)
(* a sequence of [k, v] records in insertion order with unique keys.       *)
(***************************************************************************)
EXTENDS Integers, Sequences, FiniteSets, TLC

\* ------------------------------------------------------------------ bounds
MaxEntries == 2
NumFakes == 2
GenDepth == 1
MaxTextLen == 2
MaxDetections == 2
MaxPdfs == 2
SeedBits == 6
MaxValueLen == 3

\* ------------------------------------------------------ program constants
\* mapping.py:129  `if collision_count > 100`
MaxCollisions == 100
\* generator.py:193  faker.text(max_nb_chars=len(original)) raises ValueError
\* below this number of characters.
FakerMinTextChars == 5
\* generator.py:19  base_seed: int = 42
base_seed == 42

\* --------------------------------------------------------------- strings
Letters == {"a", "b"}
Whitespace == {" "}
Chars == Letters \cup Whitespace

\* All strings over alphabet S whose length is in lo..hi.
StringsOver(S, lo, hi) == UNION {[1..n -> S] : n \in lo..hi}

\* Python's None, a value no str is equal to.
None == <<"<None>">>

\* Mutant of Truthy: `if existing:` never taken.
TruthyNever(v) == FALSE

\* Python truthiness of an Optional[str]: None and "" are falsy.
Truthy(v) == v # None /\ v # <<>>

RECURSIVE lstrip(_)
lstrip(s) == IF s # <<>> /\ Head(s) \in Whitespace THEN lstrip(Tail(s)) ELSE s

RECURSIVE rstrip(_)
rstrip(s) ==
    IF s # <<>> /\ s[Len(s)] \in Whitespace
    THEN rstrip(SubSeq(s, 1, Len(s) - 1))
    ELSE s

\* Mutant of strip: original.lstrip() in place of original.strip().
stripLeftOnly(s) == lstrip(s)

\* str.strip(): drop leading and trailing whitespace.
strip(s) == rstrip(lstrip(s))

DigitChars == <<"0", "1", "2", "3", "4", "5", "6", "7", "8", "9">>

\* str(n) for a non-negative int, as used by the f-strings of mapping.py.
RECURSIVE IntToStr(_)
IntToStr(n) ==
    IF n < 10 THEN <<DigitChars[n + 1]>>
    ELSE IntToStr(n \div 10) \o <<DigitChars[(n % 10) + 1]>>

\* ----------------------------------------------------------------- dicts
DictKeys(d) == {d[i].k : i \in 1..Len(d)}
DictHas(d, key) == key \in DictKeys(d)
DictIndex(d, key) == CHOOSE i \in 1..Len(d) : d[i].k = key
DictGet(d, key) == d[DictIndex(d, key)].v

\* Mutant of DictSet: a new key is put in front of the others.
DictSetFront(d, key, val) ==
    IF DictHas(d, key)
    THEN [d EXCEPT ![DictIndex(d, key)] = [k |-> key, v |-> val]]
    ELSE <<[k |-> key, v |-> val]>> \o d

\* d[key] = val : an existing key keeps its position, a new key is appended.
DictSet(d, key, val) ==
    IF DictHas(d, key)
    THEN [d EXCEPT ![DictIndex(d, key)] = [k |-> key, v |-> val]]
    ELSE Append(d, [k |-> key, v |-> val])

EmptyDict == <<>>

\* ------------------------------------------------------------- generator
\* Entity types handed to the generator; each selects one shaping method of
\* generate()'s dispatch table.
EntityTypes == {"PERSON", "LOCATION"}
Documents == {"a.pdf"}
\* datetime.now().isoformat(): the clock is not modelled, every reading is
\* the same instant.
Times == {"2026-01-01T00:00:00"}

\* The n-th non-empty string over the letters a, b, shortest first:
\* a, b, aa, ab, ba, bb, aaa, ...
RECURSIVE NthString(_)
NthString(n) ==
    IF n = 0 THEN <<>>
    ELSE NthString((n - 1) \div 2) \o <<IF n % 2 = 1 THEN "a" ELSE "b">>

\* What Faker can return: non-empty strings without surrounding whitespace.
FakePool == {NthString(n) : n \in 1..NumFakes}

\* generate() re-seeds Faker from SHA-256(original_value) XOR base_seed and
\* draws from it, so its result is a fixed function of (original_value,
\* entity_type).  SHA-256 and Faker are not computed here: for one value v
\* and one entity type a table t gives t[0] = generate(v) and
\* t[k] = generate(v + "_" + str(k)), the inputs of the collision retries
\* (all retries from GenDepth on draw the same candidate).  Called from one
\* thread, a generator is asked at most once per (value, type): a store only
\* grows, and a value that has its mapping is never generated for again.  So
\* each such call that creates a mapping chooses the table of its value
\* freely; calls from several threads take it from the variable faker.
GenTables == [0..GenDepth -> FakePool]

\* The tables a creating call can tell apart: the loop stops drawing at the
\* first candidate that is not a key of fake_to_original, so the candidates
\* after that one are never drawn and are fixed to repeat it.
DrawnTables(f2o) ==
    {tbl \in GenTables :
        \A k \in 0..(GenDepth - 1) :
            (\A i \in 1..Len(f2o) : f2o[i].k # tbl[k]) => tbl[k + 1] = tbl[k]}

\* The keys of generate()'s dispatch table; every other entity type goes to
\* _fake_generic.
GeneratorTypes ==
    {"PERSON", "EMAIL_ADDRESS", "PHONE_NUMBER", "US_SSN", "DATE_TIME", "LOCATION",
     "US_DRIVER_LICENSE", "CREDIT_CARD", "IP_ADDRESS", "IBAN_CODE", "US_BANK_NUMBER",
     "US_PASSPORT"}

\* generate(original_value, entity_type) raises instead of returning:
\* _fake_generic asks Faker for a text of len(original_value) characters.
generate_raises(original_value, entity_type) ==
    /\ entity_type \notin GeneratorTypes
    /\ Len(original_value) < FakerMinTextChars

generate(tbl, collision_count) ==
    tbl[IF collision_count < GenDepth THEN collision_count ELSE GenDepth]

\* ------------------------------------------- the generator, call by call
\* The states of Faker's random source, and the integers a seed ranges over
\* (4 bytes in the code, SeedBits bits here).
RandomStates == 0..(2 ^ SeedBits - 1)

GeneratorChars == Chars \cup {","}
GeneratorInputs == StringsOver(GeneratorChars, 0, MaxValueLen)

PhoneChars == {"(", "-", "+", "1"}
PhoneInputs == StringsOver(PhoneChars, 0, MaxValueLen + 1)

Ord(c) == CHOOSE i \in 1..8 : <<" ", ",", "a", "b", "(", "-", "+", "1">>[i] = c

\* int.from_bytes(hashlib.sha256(v.encode()).digest()[:4], 'big'): SHA-256 is
\* not computed; a fixed fold of the characters of v stands for it.
RECURSIVE DigestPrefix(_)
DigestPrefix(v) ==
    IF v = <<>> THEN 7
    ELSE (DigestPrefix(SubSeq(v, 1, Len(v) - 1)) * 31 + Ord(v[Len(v)])) % (2 ^ SeedBits)

\* a ^ b on non-negative ints
RECURSIVE Xor(_, _)
Xor(a, b) ==
    IF a = 0 THEN b
    ELSE IF b = 0 THEN a
    ELSE (((a % 2) + (b % 2)) % 2) + 2 * Xor(a \div 2, b \div 2)

\* DeterministicFakeGenerator._get_seed_for_value
get_seed_for_value(original_value) == Xor(DigestPrefix(original_value), base_seed)

\* Mutant of seed_instance: the seed is ignored, the source keeps its state.
seed_instance_ignored(rnd, seed) == rnd

\* self.faker.seed_instance(seed): the state of the source becomes a function
\* of the seed alone.
seed_instance(rnd, seed) == seed % (2 ^ SeedBits)

\* One draw of a provider (first_name(), city(), ...): an element of its word
\* list picked by the state of the source, which the draw advances.
random_element(rnd) == NthString((rnd % NumFakes) + 1)
random_advance(rnd) == (rnd * 5 + 3) % (2 ^ SeedBits)

\* n draws joined by sep.
RECURSIVE Draw(_, _, _)
Draw(rnd, n, sep) ==
    IF n = 0 THEN [value |-> <<>>, random |-> rnd]
    ELSE LET rest == Draw(random_advance(rnd), n - 1, sep) IN
         [value |-> random_element(rnd) \o (IF n > 1 THEN sep ELSE <<>>) \o rest.value,
          random |-> rest.random]

\* len(original.split())
WordCount(s) ==
    Cardinality({i \in 1..Len(s) :
                    s[i] \notin Whitespace /\ (i = 1 \/ s[i - 1] \in Whitespace)})

\* len(original.split(",")) - 1
CommaCount(s) == Cardinality({i \in 1..Len(s) : s[i] = ","})

\* _fake_person: first_name() | name() | first first last
fake_person(rnd, original) ==
    IF WordCount(original) = 1 THEN Draw(rnd, 1, <<" ">>)
    ELSE IF WordCount(original) = 2 THEN Draw(rnd, 2, <<" ">>)
    ELSE Draw(rnd, 3, <<" ">>)

\* _fake_location: city() | "city, ST" | address().replace("\n", ", ")
fake_location(rnd, original) ==
    IF CommaCount(original) > 0
    THEN IF CommaCount(original) = 1 THEN Draw(rnd, 2, <<",", " ">>)
         ELSE Draw(rnd, 3, <<",", " ">>)
    ELSE Draw(rnd, 1, <<",", " ">>)

\* Mutant of random_int: the lower end of the range is forgotten.
random_int_from_zero(rnd, lo, hi) == rnd % (hi - lo + 1)

\* self.faker.random_int(lo, hi): an int of lo..hi picked by the source.
random_int(rnd, lo, hi) == lo + (rnd % (hi - lo + 1))

\* str.startswith(c) for a one-character c
StartsWithChar(s, c) == s # <<>> /\ Head(s) = c

\* len(original.split("-")) - 1
HyphenCount(s) == Cardinality({i \in 1..Len(s) : s[i] = "-"})

\* Formats of Faker's phone_number(), each # a digit to draw.
PhoneFormats ==
    <<<<"#", "#", "#", "-", "#", "#", "#", "-", "#", "#", "#", "#">>,
      <<"(", "#", "#", "#", ")", "#", "#", "#", "-", "#", "#", "#", "#">>,
      <<"#", "#", "#", ".", "#", "#", "#", ".", "#", "#", "#", "#">>>>

\* Faker's numerify: every # of the pattern becomes a drawn digit.
RECURSIVE Numerify(_, _)
Numerify(rnd, pattern) ==
    IF pattern = <<>> THEN [value |-> <<>>, random |-> rnd]
    ELSE IF Head(pattern) = "#"
         THEN LET rest == Numerify(random_advance(rnd), Tail(pattern)) IN
              [value |-> <<DigitChars[(rnd % 10) + 1]>> \o rest.value,
               random |-> rest.random]
         ELSE LET rest == Numerify(rnd, Tail(pattern)) IN
              [value |-> <<Head(pattern)>> \o rest.value, random |-> rest.random]

\* self.faker.phone_number(): a format picked by the source, then numerified.
phone_number(rnd) ==
    Numerify(random_advance(rnd), PhoneFormats[(rnd % Len(PhoneFormats)) + 1])

\* _fake_phone
fake_phone(rnd, original) ==
    LET r2 == random_advance(rnd)
        r3 == random_advance(r2)
    IN  IF StartsWithChar(original, "(")
        THEN [value |-> <<"(">> \o IntToStr(random_int(rnd, 200, 999)) \o <<")", " ">>
                          \o IntToStr(random_int(r2, 200, 999)) \o <<"-">>
                          \o IntToStr(random_int(r3, 1000, 9999)),
              random |-> random_advance(r3)]
        ELSE IF HyphenCount(original) > 0 /\ ~StartsWithChar(original, "+")
             THEN IF HyphenCount(original) = 2
                  THEN [value |-> IntToStr(random_int(rnd, 200, 999)) \o <<"-">>
                                    \o IntToStr(random_int(r2, 200, 999)) \o <<"-">>
                                    \o IntToStr(random_int(r3, 1000, 9999)),
                        random |-> random_advance(r3)]
                  ELSE phone_number(rnd)
             ELSE phone_number(rnd)

BankChars == {"1", "-", "a"}
BankInputs == StringsOver(BankChars, 0, MaxValueLen + 1)

\* len(re.sub(r'\D', '', original))
DigitCount(s) ==
    Cardinality({i \in 1..Len(s) : \E d \in 1..10 : DigitChars[d] = s[i]})

\* ''.join([str(self.faker.random_int(0, 9)) for _ in range(length)])
RECURSIVE RandomDigits(_, _)
RandomDigits(rnd, length) ==
    IF length = 0 THEN [value |-> <<>>, random |-> rnd]
    ELSE LET rest == RandomDigits(random_advance(rnd), length - 1) IN
         [value |-> IntToStr(random_int(rnd, 0, 9)) \o rest.value,
          random |-> rest.random]

\* Mutant of fake_bank_number: every character of the original is counted.
fake_bank_number_by_len(rnd, original) ==
    RandomDigits(rnd, IF Len(original) = 0 THEN 10 ELSE Len(original))

\* _fake_bank_number
fake_bank_number(rnd, original) ==
    RandomDigits(rnd, IF DigitCount(original) = 0 THEN 10 ELSE DigitCount(original))

\* DeterministicFakeGenerator.generate on a source in state rnd: the value it
\* returns (or the exception it raises) and the state it leaves the source in.
generate_call(rnd, original_value, entity_type) ==
    LET seeded == seed_instance(rnd, get_seed_for_value(original_value)) IN
    IF generate_raises(original_value, entity_type)
    THEN [value |-> None, raised |-> "ValueError", random |-> seeded]
    ELSE LET r == IF entity_type = "PERSON" THEN fake_person(seeded, original_value)
                  ELSE IF entity_type = "LOCATION"
                       THEN fake_location(seeded, original_value)
                  ELSE IF entity_type = "PHONE_NUMBER"
                       THEN fake_phone(seeded, original_value)
                  ELSE IF entity_type = "US_BANK_NUMBER"
                       THEN fake_bank_number(seeded, original_value)
                  ELSE Draw(seeded, 1, <<>>)
         IN [value |-> r.value, raised |-> "", random |-> r.random]

\* ---------------------------------------------------------- MappingStore
PIIMapping(original, fake, entity_type, document, timestamp) ==
    [original |-> original, fake |-> fake, entity_type |-> entity_type,
     document |-> document, timestamp |-> timestamp]

EmptyStore == [original_to_fake |-> EmptyDict, fake_to_original |-> EmptyDict]

\* MappingStore.get_fake
get_fake(o2f, original) ==
    IF DictHas(o2f, original) THEN DictGet(o2f, original).fake ELSE None

\* MappingStore.get_original
get_original(f2o, fake) ==
    IF DictHas(f2o, fake) THEN DictGet(f2o, fake) ELSE None

\* The `while fake in self.fake_to_original` loop of get_or_create_fake, in
\* closed form.  The loop tests the candidate of collision_count = 0 (the
\* first fake), 1, 2, ... in turn and leaves with the first one that is not a
\* key of fake_to_original; the test at collision_count = MaxCollisions is
\* the last one, after it the count is MaxCollisions + 1 and the loop breaks
\* with original_fake + "_" + str(collision_count).
collision_loop(f2o, tbl, original_fake) ==
    LET Candidate(collision_count) ==
            IF collision_count = 0 THEN original_fake
            ELSE generate(tbl, collision_count)
        NoCollision(collision_count) == ~DictHas(f2o, Candidate(collision_count))
        passing == SelectSeq([i \in 1..(MaxCollisions + 1) |-> i - 1], NoCollision)
    IN  IF NoCollision(0) THEN original_fake
        ELSE IF passing # <<>> THEN Candidate(Head(passing))
        ELSE original_fake \o <<"_">> \o IntToStr(MaxCollisions + 1)

\* The same loop statement by statement, on a table that gives the candidate
\* of every collision_count the loop can reach: the fake it leaves with and
\* the collision_count it leaves at.
\* Mutant of collision_while: `if collision_count > 101`.
RECURSIVE collision_while_late(_, _, _, _, _)
collision_while_late(f2o, tbl, original_fake, fake, collision_count) ==
    IF ~DictHas(f2o, fake)
    THEN [fake |-> fake, collision_count |-> collision_count]
    ELSE IF collision_count + 1 > MaxCollisions + 1
         THEN [fake |-> original_fake \o <<"_">> \o IntToStr(collision_count + 1),
               collision_count |-> collision_count + 1]
         ELSE collision_while_late(f2o, tbl, original_fake, tbl[collision_count + 1],
                                   collision_count + 1)

RECURSIVE collision_while(_, _, _, _, _)
collision_while(f2o, tbl, original_fake, fake, collision_count) ==
    IF ~DictHas(f2o, fake)
    THEN [fake |-> fake, collision_count |-> collision_count]
    ELSE IF collision_count + 1 > MaxCollisions
         THEN [fake |-> original_fake \o <<"_">> \o IntToStr(collision_count + 1),
               collision_count |-> collision_count + 1]
         ELSE collision_while(f2o, tbl, original_fake, tbl[collision_count + 1],
                              collision_count + 1)

\* The tables of candidates for collision_count 0, 1, ...: the candidate x up
\* to some count, the candidate y from there on; the count is one of the
\* first ones or one around the bound of the loop.
LongTable(k, x, y) == [c \in 0..(MaxCollisions + 2) |-> IF c < k THEN x ELSE y]
SwitchCounts ==
    {0, 1, 2, MaxCollisions - 1, MaxCollisions, MaxCollisions + 1, MaxCollisions + 2}
LongTables ==
    {LongTable(k, x, y) : k \in SwitchCounts, x \in FakePool, y \in FakePool}

\* MappingStore.get_or_create_fake with the loop run statement by statement.
get_or_create_fake_while(st, original, entity_type, tbl, document, now) ==
    LET normalized == strip(original)
        existing == get_fake(st.original_to_fake, normalized)
    IN  IF Truthy(existing)
        THEN [store |-> st, ret |-> existing, created |-> FALSE, collision_count |-> 0]
        ELSE LET l == collision_while(st.fake_to_original, tbl, tbl[0], tbl[0], 0)
                 mapping == PIIMapping(normalized, l.fake, entity_type, document, now)
             IN  [store |->
                    [original_to_fake |-> DictSet(st.original_to_fake, normalized, mapping),
                     fake_to_original |-> DictSet(st.fake_to_original, l.fake, normalized)],
                  ret |-> l.fake, created |-> TRUE, collision_count |-> l.collision_count]

\* MappingStore.get_or_create_fake on store st; tbl is the generator's table
\* for (original.strip(), entity_type) and now is datetime.now().
get_or_create_fake(st, original, entity_type, tbl, document, now) ==
    LET normalized == strip(original)
        existing == get_fake(st.original_to_fake, normalized)
    IN  IF Truthy(existing)
        THEN [store |-> st, ret |-> existing, created |-> FALSE, raised |-> ""]
        ELSE IF generate_raises(normalized, entity_type)
        THEN [store |-> st, ret |-> None, created |-> FALSE, raised |-> "ValueError"]
        ELSE LET first == generate(tbl, 0)
                 fake == collision_loop(st.fake_to_original, tbl, first)
                 mapping == PIIMapping(normalized, fake, entity_type, document, now)
             IN  [store |->
                    [original_to_fake |-> DictSet(st.original_to_fake, normalized, mapping),
                     fake_to_original |-> DictSet(st.fake_to_original, fake, normalized)],
                  ret |-> fake, created |-> TRUE, raised |-> ""]

\* {m.original: m.fake for m in self.original_to_fake.values()}
RECURSIVE OriginalToPseudo(_)
OriginalToPseudo(o2f) ==
    IF o2f = <<>> THEN EmptyDict
    ELSE LET m == o2f[Len(o2f)].v
         IN  DictSet(OriginalToPseudo(SubSeq(o2f, 1, Len(o2f) - 1)), m.original, m.fake)

\* MappingStore.get_mappings_list
get_mappings_list(st) ==
    [i \in 1..Len(st.original_to_fake) |->
        [original |-> st.original_to_fake[i].v.original,
         fake |-> st.original_to_fake[i].v.fake,
         type |-> st.original_to_fake[i].v.entity_type,
         document |-> st.original_to_fake[i].v.document]]

\* MappingStore.get_all_mappings
get_all_mappings(st) == OriginalToPseudo(st.original_to_fake)

\* MappingStore.get_all_reverse_mappings
get_all_reverse_mappings(st) == st.fake_to_original

\* The mapping file: absent, a complete JSON document, or the leading part
\* of one (what open(..., "w") followed by an unfinished json.dump leaves).
AbsentFile == [state |-> "absent"]
PartialFile == [state |-> "partial"]
JsonFile(data) == [state |-> "json", data |-> data]
\* A file holding valid JSON that is not an object: a list, a string, a
\* number or null.
JsonNonObjectFile(kind) == [state |-> "json_non_object", kind |-> kind]
\* A file written by save_text / create_pdf_from_text, by the text it holds.
TextFile(text) == [state |-> "text", text |-> text]

\* Mutant of SaveData: the two maps of the old format left out.
SaveDataNewOnly(st, now) ==
    [version |-> "2.0",
     created |-> now,
     mappings |-> [i \in 1..Len(st.original_to_fake) |-> st.original_to_fake[i].v]]

\* The JSON document MappingStore.save() dumps.
SaveData(st, now) ==
    [version |-> "2.0",
     created |-> now,
     mappings |-> [i \in 1..Len(st.original_to_fake) |-> st.original_to_fake[i].v],
     original_to_pseudo |-> OriginalToPseudo(st.original_to_fake),
     pseudo_to_original |-> st.fake_to_original]

\* MappingStore.save, run to completion.
save(st, now) == JsonFile(SaveData(st, now))

\* ReversibleAnonymizer._load_mappings of the old tool (src/anonymizer.py):
\* the two maps of the file, {} for a missing one.
load_mappings(file) ==
    IF file.state = "absent"
    THEN [original_to_pseudo |-> EmptyDict, pseudo_to_original |-> EmptyDict]
    ELSE [original_to_pseudo |->
              IF "original_to_pseudo" \in DOMAIN file.data
              THEN file.data.original_to_pseudo ELSE EmptyDict,
          pseudo_to_original |->
              IF "pseudo_to_original" \in DOMAIN file.data
              THEN file.data.pseudo_to_original ELSE EmptyDict]

\* The fields of the PIIMapping dataclass, all required.
PIIMappingFields == {"original", "fake", "entity_type", "document", "timestamp"}

\* The new-format loop of _load over data["mappings"]; the result is the
\* store as far as it was filled and the exception that ended the loop.
\* PIIMapping(**mapping_data) raises TypeError for a missing or an unexpected
\* keyword.
RECURSIVE LoadMappings(_, _)
LoadMappings(st, mappings) ==
    IF mappings = <<>> THEN [store |-> st, raised |-> ""]
    ELSE LET m == Head(mappings)
         IN  IF DOMAIN m # PIIMappingFields
             THEN [store |-> st, raised |-> "TypeError"]
             ELSE LoadMappings(
                    [original_to_fake |-> DictSet(st.original_to_fake, m.original, m),
                     fake_to_original |-> DictSet(st.fake_to_original, m.fake, m.original)],
                    Tail(mappings))

\* The old-format loop of _load over data["original_to_pseudo"].
RECURSIVE LoadLegacy(_, _, _)
LoadLegacy(st, old_o2p, now) ==
    IF old_o2p = <<>> THEN st
    ELSE LET original == Head(old_o2p).k
             fake == Head(old_o2p).v
             m == PIIMapping(original, fake, "UNKNOWN", "migrated", now)
         IN  LoadLegacy(
                [original_to_fake |-> DictSet(st.original_to_fake, original, m),
                 fake_to_original |-> DictSet(st.fake_to_original, fake, original)],
                Tail(old_o2p), now)

\* MappingStore.__init__ + _load: the store built from the mapping file and
\* the exception the constructor raised ("" for none).  A file that does not
\* parse raises JSONDecodeError, which _load swallows together with KeyError;
\* nothing else is caught.  On a list or a string `"mappings" in data` is
\* False and data.get raises AttributeError; on a number or null the `in`
\* test itself raises TypeError.
MappingStoreInit(file, now) ==
    IF file.state \in {"absent", "partial"} THEN [store |-> EmptyStore, raised |-> ""]
    ELSE IF file.state = "json_non_object"
    THEN [store |-> EmptyStore,
          raised |-> IF file.kind \in {"list", "string"}
                     THEN "AttributeError" ELSE "TypeError"]
    ELSE IF "mappings" \in DOMAIN file.data
         THEN LoadMappings(EmptyStore, file.data.mappings)
         ELSE [store |-> LoadLegacy(EmptyStore,
                            IF "original_to_pseudo" \in DOMAIN file.data
                            THEN file.data.original_to_pseudo ELSE EmptyDict,
                            now),
               raised |-> ""]

\* The store a MappingStore(mapping_file) call leaves filled.
load(file, now) == MappingStoreInit(file, now).store

\* ------------------------------------------------------------ Anonymizer
\* s.startswith(prefix)
StartsWith(s, prefix) ==
    Len(prefix) <= Len(s) /\ SubSeq(s, 1, Len(prefix)) = prefix

\* `sub in s` for two strs.
Contains(s, sub) ==
    \E i \in 0..(Len(s) - Len(sub)) : SubSeq(s, i + 1, i + Len(sub)) = sub

\* s.replace("", new): new before every character and at the end.
RECURSIVE Interleave(_, _)
Interleave(s, new) ==
    IF s = <<>> THEN new ELSE new \o <<Head(s)>> \o Interleave(Tail(s), new)

\* s.replace(old, new): every non-overlapping occurrence, scanning from the
\* left; the text put in is not scanned again.
RECURSIVE ReplaceScan(_, _, _)
ReplaceScan(s, old, new) ==
    IF Len(s) < Len(old) THEN s
    ELSE IF StartsWith(s, old)
         THEN new \o ReplaceScan(SubSeq(s, Len(old) + 1, Len(s)), old, new)
         ELSE <<Head(s)>> \o ReplaceScan(Tail(s), old, new)

Replace(s, old, new) ==
    IF old = <<>> THEN Interleave(s, new) ELSE ReplaceScan(s, old, new)

\* Insert key into a list already ordered by decreasing length, after the
\* keys that are at least as long (sorted() is stable, also with reverse=True).
RECURSIVE InsertByLen(_, _)
InsertByLen(sorted, key) ==
    IF sorted = <<>> THEN <<key>>
    ELSE IF Len(Head(sorted)) >= Len(key)
         THEN <<Head(sorted)>> \o InsertByLen(Tail(sorted), key)
         ELSE <<key>> \o sorted

\* sorted(keys, key=len, reverse=True)
RECURSIVE SortedByLenDesc(_)
SortedByLenDesc(keys) ==
    IF keys = <<>> THEN <<>>
    ELSE InsertByLen(SortedByLenDesc(SubSeq(keys, 1, Len(keys) - 1)), keys[Len(keys)])

RECURSIVE ReplaceEach(_, _, _)
ReplaceEach(result, order, replacements) ==
    IF order = <<>> THEN result
    ELSE ReplaceEach(Replace(result, Head(order), DictGet(replacements, Head(order))),
                     Tail(order), replacements)

\* Anonymizer._replace_text
replace_text(text, replacements) ==
    ReplaceEach(text,
                SortedByLenDesc([i \in 1..Len(replacements) |-> replacements[i].k]),
                replacements)

\* The `for fake, original in reverse_map.items()` loop of reverse_pdf.
RECURSIVE ReverseLoop(_, _, _)
ReverseLoop(restored_text, replacements_made, items) ==
    IF items = <<>>
    THEN [restored_text |-> restored_text, replacements_made |-> replacements_made]
    ELSE IF Contains(restored_text, Head(items).k)
         THEN ReverseLoop(Replace(restored_text, Head(items).k, Head(items).v),
                          replacements_made + 1, Tail(items))
         ELSE ReverseLoop(restored_text, replacements_made, Tail(items))

\* Mutant of reverse_pdf: the `if not reverse_map: raise` check left out.
reverse_pdf_unchecked(text, reverse_map) ==
    LET r == ReverseLoop(text, 0, reverse_map)
    IN  [raised |-> "", written |-> TRUE,
         restored_text |-> r.restored_text,
         replacements_made |-> r.replacements_made]

\* Anonymizer.reverse_pdf on the text read from input_path: either raises
\* ValueError, or returns the count and writes restored_text to output_path.
reverse_pdf(text, reverse_map) ==
    IF reverse_map = EmptyDict
    THEN [raised |-> "ValueError", written |-> FALSE,
          restored_text |-> <<>>, replacements_made |-> 0]
    ELSE LET r == ReverseLoop(text, 0, reverse_map)
         IN  [raised |-> "", written |-> TRUE,
              restored_text |-> r.restored_text,
              replacements_made |-> r.replacements_made]

\* detector.detect_with_context(text): the analyzer is not modelled; its
\* results are any list of up to MaxDetections different spans of the text,
\* each with its value text[start:end].  A character of the model stands for
\* a run of characters long enough to pass _filter_results.
Spans(text) == {se \in (0..Len(text)) \X (0..Len(text)) : se[1] < se[2]}

Detection(text, se, entity_type) ==
    [entity_type |-> entity_type, value |-> SubSeq(text, se[1] + 1, se[2]),
     start |-> se[1], end |-> se[2]]

DetectionLists(text) ==
    {ds \in UNION {[1..n -> {Detection(text, se, entity_type) :
                                se \in Spans(text), entity_type \in EntityTypes}] :
                      n \in 0..MaxDetections} :
        \A i, j \in 1..Len(ds) : i # j => ds[i] # ds[j]}

\* The `for detection in detections` loop of anonymize_pdf; tbls[i] is the
\* generator's table for the value of the i-th detection.
RECURSIVE DetectionLoop(_, _, _, _, _, _)
DetectionLoop(st, replacements, detections, tbls, document, now) ==
    IF detections = <<>> THEN [store |-> st, replacements |-> replacements]
    ELSE LET original == Head(detections).value
             r == get_or_create_fake(st, original, Head(detections).entity_type,
                                     Head(tbls), document, now)
         IN  DetectionLoop(r.store, DictSet(replacements, original, r.ret),
                           Tail(detections), Tail(tbls), document, now)

\* Anonymizer.anonymize_pdf with output_format "txt" on a document whose
\* extracted text is text and for which the detector returned detections.
anonymize_pdf(st, file, text, detections, tbls, document, now) ==
    IF detections = <<>>
    THEN [store |-> st, mapping_file |-> file, output |-> text,
          ret |-> <<0, <<>>>>]
    ELSE LET l == DetectionLoop(st, EmptyDict, detections, tbls, document, now)
         IN  [store |-> l.store,
              mapping_file |-> save(l.store, now),
              output |-> replace_text(text, l.replacements),
              ret |-> <<Len(detections), detections>>]

\* A PDF written by create_pdf_from_text, by the text rendered into it.
PdfFromText(text) == [state |-> "pdf_from_text", text |-> text]
\* A PDF written by create_anonymized_pdf: the input document with every
\* found instance of a key of replacements redacted to its value.
PdfRedacted(text, replacements) ==
    [state |-> "pdf_redacted", text |-> text, replacements |-> replacements]
\* The input document copied by shutil.copy.
PdfCopy(text) == [state |-> "pdf_copy", text |-> text]

\* PDFHandler.create_anonymized_pdf on an input that exists: every exception
\* of opening, searching and redacting the pages (pages_ok) and of creating
\* the output directory and saving the document (writable) is caught and
\* turned into False.
create_anonymized_pdf(text, replacements, pages_ok, writable) ==
    IF pages_ok /\ writable
    THEN [success |-> TRUE, output |-> PdfRedacted(text, replacements)]
    ELSE [success |-> FALSE, output |-> AbsentFile]

\* PDFHandler.create_pdf_from_text: nothing is caught, so the mkdir or the
\* save of an output path that cannot be written raises.
create_pdf_from_text(text, writable) ==
    IF writable
    THEN [raised |-> "", output |-> PdfFromText(text)]
    ELSE [raised |-> "Exception", output |-> AbsentFile]

\* Anonymizer.anonymize_pdf with output_format "pdf".
anonymize_pdf_to_pdf(st, file, text, detections, tbls, document, now, pages_ok, writable) ==
    IF detections = <<>>
    THEN IF writable
         THEN [store |-> st, mapping_file |-> file, output |-> PdfCopy(text),
               ret |-> <<0, <<>>>>, raised |-> "", success |-> "not called"]
         ELSE [store |-> st, mapping_file |-> file, output |-> AbsentFile,
               ret |-> None, raised |-> "Exception", success |-> "not called"]
    ELSE LET l == DetectionLoop(st, EmptyDict, detections, tbls, document, now)
             c == create_anonymized_pdf(text, l.replacements, pages_ok, writable)
             f == create_pdf_from_text(replace_text(text, l.replacements), writable)
         IN  IF c.success
             THEN [store |-> l.store, mapping_file |-> save(l.store, now),
                   output |-> c.output, ret |-> <<Len(detections), detections>>,
                   raised |-> "", success |-> "True"]
             ELSE [store |-> l.store, mapping_file |-> save(l.store, now),
                   output |-> f.output,
                   ret |-> IF f.raised = "" THEN <<Len(detections), detections>>
                           ELSE None,
                   raised |-> f.raised, success |-> "False"]

\* ----------------------------------------------------------------- state
VARIABLES
    original_to_fake,   \* MappingStore.original_to_fake : dict str -> PIIMapping
    fake_to_original,   \* MappingStore.fake_to_original : dict str -> str
    mapping_file,       \* the file at MappingStore.mapping_file
    output_file,        \* what the last call wrote to its output_path
    ret,                \* outcome of the last call
    saving,             \* the save() call that has opened the mapping file
    threads,            \* the get_or_create_fake call each thread is in
    faker,              \* the tables the generator shared by the threads has used
    random,             \* DeterministicFakeGenerator.faker : state of its random source
    anonymizing,        \* the anonymize_pdf call in progress: its position and locals
    batch               \* the process_directory call in progress: its position and locals

vars == <<original_to_fake, fake_to_original, mapping_file, output_file, ret,
          saving, threads, faker, random, anonymizing, batch>>

Store == [original_to_fake |-> original_to_fake, fake_to_original |-> fake_to_original]

\* Originals handed to get_or_create_fake: two words, one of them also padded
\* with whitespace on both sides, and a blank string.
Originals == {<<"a">>, <<" ", "a", " ">>, <<"b">>, <<" ">>}
\* Texts handed to reverse_pdf: each one value the generator can return.
Texts == FakePool
\* Texts of the documents handed to anonymize_pdf.
PdfTexts == StringsOver(Letters, 1, MaxTextLen)

\* No save() has the mapping file open.
NotSaving == [pc |-> "idle"]

Threads == {"t1", "t2"}
\* A thread outside get_or_create_fake.
Idle == [pc |-> "idle"]

\* op: the call; arg: its original or text argument; value: what it returned;
\* raised: the exception it raised ("" for none); created: whether
\* get_or_create_fake stored a new mapping.
Outcome(op, arg, value, raised, created) ==
    [op |-> op, arg |-> arg, value |-> value, raised |-> raised, created |-> created]

\* MappingStore(mapping_file) on a path where no file exists, and an idle
\* DeterministicFakeGenerator.
Constructed ==
    /\ original_to_fake = load(AbsentFile, "").original_to_fake
    /\ fake_to_original = load(AbsentFile, "").fake_to_original
    /\ mapping_file = AbsentFile
    /\ output_file = AbsentFile
    /\ ret = Outcome("__init__", None, None, "", FALSE)
    /\ saving = NotSaving
    /\ threads = [t \in Threads |-> Idle]
    /\ faker = <<>>
    /\ anonymizing = [pc |-> "idle"]
    /\ batch = [pc |-> "idle"]

\* Only generate() reads the random source, and only SpecGenerator calls it
\* draw by draw; elsewhere the source stays in one state.
Init == Constructed /\ random = 0

\* Faker(locale) leaves its random source unseeded.
InitGenerator == Constructed /\ random \in RandomStates

\* store.get_or_create_fake(original, entity_type, generator, document).
\* The generator and the clock are consulted only when a mapping is created;
\* a mapping is created only while the store holds fewer than cap entries.
GetOrCreateFakeUpTo(cap, original, entity_type, document) ==
    LET found == Truthy(get_fake(original_to_fake, strip(original))) IN
    /\ found \/ Len(original_to_fake) < cap
    /\ \E tbl \in IF found THEN {CHOOSE t \in GenTables : TRUE}
                   ELSE DrawnTables(fake_to_original),
          now \in IF found THEN {CHOOSE t \in Times : TRUE} ELSE Times :
          \E r \in {get_or_create_fake(Store, original, entity_type, tbl, document, now)} :
              /\ original_to_fake' = r.store.original_to_fake
              /\ fake_to_original' = r.store.fake_to_original
              /\ ret' = Outcome("get_or_create_fake", original, r.ret, r.raised, r.created)
    /\ output_file' = AbsentFile
    /\ UNCHANGED <<mapping_file, saving, threads, faker, random, anonymizing, batch>>

GetOrCreateFake(original, entity_type, document) ==
    GetOrCreateFakeUpTo(MaxEntries, original, entity_type, document)

\* store.save()
Save ==
    \E now \in Times :
        /\ mapping_file' = save(Store, now)
        /\ ret' = Outcome("save", None, None, "", FALSE)
        /\ output_file' = AbsentFile
        /\ UNCHANGED <<original_to_fake, fake_to_original, saving, threads, faker, random, anonymizing, batch>>

\* MappingStore(mapping_file): a store constructed from the file.
NewMappingStore ==
    \E now \in Times : \E r \in {MappingStoreInit(mapping_file, now)} :
        /\ original_to_fake' = r.store.original_to_fake
        /\ fake_to_original' = r.store.fake_to_original
        /\ ret' = Outcome("__init__", None, None, r.raised, FALSE)
        /\ output_file' = AbsentFile
        /\ UNCHANGED <<mapping_file, saving, threads, faker, random, anonymizing, batch>>

\* anonymizer.reverse_pdf(input_path, output_path) with text read from input_path
ReversePdf(text) ==
    \E r \in {reverse_pdf(text, get_all_reverse_mappings(Store))} :
        /\ output_file' = IF r.written THEN TextFile(r.restored_text) ELSE AbsentFile
        /\ ret' = Outcome("reverse_pdf", text, r.replacements_made, r.raised, FALSE)
        /\ UNCHANGED <<original_to_fake, fake_to_original, mapping_file, saving, threads, faker, random, anonymizing, batch>>

Next ==
    \/ \E original \in Originals, entity_type \in EntityTypes, document \in Documents :
          GetOrCreateFake(original, entity_type, document)
    \/ Save
    \/ NewMappingStore
    \/ \E text \in Texts : ReversePdf(text)

Spec == Init /\ [][Next]_vars

\* The same operations on a store that may hold one entry more.
GetOrCreateFakeDeep(original, entity_type, document) ==
    GetOrCreateFakeUpTo(MaxEntries + 1, original, entity_type, document)

NextDeep ==
    \/ \E original \in Originals, entity_type \in EntityTypes, document \in Documents :
          GetOrCreateFakeDeep(original, entity_type, document)
    \/ Save
    \/ NewMappingStore
    \/ \E text \in Texts : ReversePdf(text)

SpecDeep == Init /\ [][NextDeep]_vars

\* ---------------------------------------------- anonymize, then reverse
\* anonymizer.anonymize_pdf(input_path, output_path, "txt"); the store takes
\* the new mappings only while it stays within MaxEntries entries.
AnonymizePdf(text, detections) ==
    /\ Len(original_to_fake) + Len(detections) <= MaxEntries
    /\ \E tbls \in [1..Len(detections) -> GenTables],
          document \in Documents, now \in Times :
          \E r \in {anonymize_pdf(Store, mapping_file, text, detections, tbls,
                                  document, now)} :
              /\ original_to_fake' = r.store.original_to_fake
              /\ fake_to_original' = r.store.fake_to_original
              /\ mapping_file' = r.mapping_file
              /\ output_file' = TextFile(r.output)
              /\ ret' = Outcome("anonymize_pdf", text, r.ret, "", FALSE)
    /\ UNCHANGED <<saving, threads, faker, random, anonymizing, batch>>

\* anonymizer.reverse_pdf on the file anonymize_pdf has just written.
ReverseOutput ==
    /\ ret.op = "anonymize_pdf"
    /\ ReversePdf(output_file.text)

NextPipeline ==
    \/ \E text \in PdfTexts : \E detections \in DetectionLists(text) :
          AnonymizePdf(text, detections)
    \/ ReverseOutput

SpecPipeline == Init /\ [][NextPipeline]_vars

\* ------------------------------------------------- save(), step by step
\* save() up to and including open(self.mapping_file, "w"): the data to
\* dump is built and the file is truncated.
SaveOpen ==
    /\ saving.pc # "writing"
    /\ \E now \in Times :
          saving' = [pc |-> "writing", before |-> mapping_file,
                     data |-> SaveData(Store, now)]
    /\ mapping_file' = PartialFile
    /\ UNCHANGED <<original_to_fake, fake_to_original, output_file, ret, threads,
                   faker, random, anonymizing, batch>>

\* json.dump(data, f) runs to its end and the file is closed.
SaveDump ==
    /\ saving.pc = "writing"
    /\ mapping_file' = JsonFile(saving.data)
    /\ saving' = NotSaving
    /\ ret' = Outcome("save", None, None, "", FALSE)
    /\ UNCHANGED <<original_to_fake, fake_to_original, output_file, threads, faker, random, anonymizing, batch>>

\* json.dump raises (OSError of a full disk) or the process is killed: the
\* file stays as far as it was written.
SaveInterrupt ==
    /\ saving.pc = "writing"
    /\ saving' = [saving EXCEPT !.pc = "interrupted"]
    /\ ret' = Outcome("save", None, None, "OSError", FALSE)
    /\ UNCHANGED <<original_to_fake, fake_to_original, mapping_file, output_file,
                   threads, faker, random, anonymizing, batch>>

\* MappingStore(mapping_file) in another process while the save() is
\* writing, or in the next process after the save() was interrupted.
LoadDuringSave ==
    /\ saving.pc # "idle"
    /\ \E now \in Times : \E st \in {load(mapping_file, now)} :
          /\ original_to_fake' = st.original_to_fake
          /\ fake_to_original' = st.fake_to_original
    /\ ret' = Outcome("__init__", None, None, "", FALSE)
    /\ UNCHANGED <<mapping_file, output_file, saving, threads, faker, random, anonymizing, batch>>

\* get_or_create_fake by the process that holds the store; a process that
\* is inside save() makes no other call.
GetOrCreateFakeOutsideSave(original, document) ==
    /\ saving.pc # "writing"
    /\ GetOrCreateFake(original, "PERSON", document)

NextCrash ==
    \/ \E original \in Originals, document \in Documents :
          GetOrCreateFakeOutsideSave(original, document)
    \/ SaveOpen
    \/ SaveDump
    \/ SaveInterrupt
    \/ LoadDuringSave

SpecCrash == Init /\ [][NextCrash]_vars

\* ------------------------------- get_or_create_fake, statement by statement
\* Threads inside the part of get_or_create_fake that creates a mapping.
Creating == {t \in Threads : threads[t].pc # "idle"}

\* Lines 111-117: normalized = original.strip(); existing = get_fake(...);
\* return it if there is one.
ThreadLookup(t, original, entity_type, document) ==
    LET normalized == strip(original)
        existing == get_fake(original_to_fake, normalized)
    IN  /\ threads[t].pc = "idle"
        /\ Truthy(existing) \/ Len(original_to_fake) + Cardinality(Creating) < MaxEntries
        /\ IF Truthy(existing)
           THEN /\ ret' = Outcome("get_or_create_fake", original, existing, "", FALSE)
                /\ UNCHANGED threads
           ELSE /\ threads' = [threads EXCEPT ![t] =
                                [pc |-> "generate", original |-> original,
                                 normalized |-> normalized, entity_type |-> entity_type,
                                 document |-> document]]
                /\ UNCHANGED ret
        /\ UNCHANGED <<original_to_fake, fake_to_original, mapping_file, output_file,
                       saving, faker, random, anonymizing, batch>>

\* Lines 119-132: generate the fake and run the collision loop.  The
\* generator is deterministic: the table of a (value, entity type) it was
\* asked for before is the one it used then.  Every test of the loop reads
\* fake_to_original once; the tests are taken in one step, which leaves out
\* interleavings and adds none.
ThreadResolve(t, tbl) ==
    LET asked == <<threads[t].normalized, threads[t].entity_type>> IN
    /\ threads[t].pc = "generate"
    /\ asked \in DOMAIN faker => faker[asked] = tbl
    /\ faker' = (asked :> tbl) @@ faker
    /\ threads' = [threads EXCEPT ![t] =
            [pc |-> "store_forward", original |-> threads[t].original,
             normalized |-> threads[t].normalized,
             entity_type |-> threads[t].entity_type,
             document |-> threads[t].document,
             fake |-> collision_loop(fake_to_original, tbl, generate(tbl, 0))]]
    /\ UNCHANGED <<original_to_fake, fake_to_original, mapping_file, output_file,
                   ret, saving, random, anonymizing, batch>>

\* Lines 134-142: build the PIIMapping and
\* self.original_to_fake[normalized] = mapping.
ThreadStoreForward(t) ==
    /\ threads[t].pc = "store_forward"
    /\ \E now \in Times :
          original_to_fake' =
              DictSet(original_to_fake, threads[t].normalized,
                      PIIMapping(threads[t].normalized, threads[t].fake,
                                 threads[t].entity_type, threads[t].document, now))
    /\ threads' = [threads EXCEPT ![t].pc = "store_reverse"]
    /\ UNCHANGED <<fake_to_original, mapping_file, output_file, ret, saving, faker, random, anonymizing, batch>>

\* Lines 143-145: self.fake_to_original[fake] = normalized; return fake.
ThreadStoreReverse(t) ==
    /\ threads[t].pc = "store_reverse"
    /\ fake_to_original' =
          DictSet(fake_to_original, threads[t].fake, threads[t].normalized)
    /\ ret' = Outcome("get_or_create_fake", threads[t].original, threads[t].fake,
                      "", TRUE)
    /\ threads' = [threads EXCEPT ![t] = Idle]
    /\ UNCHANGED <<original_to_fake, mapping_file, output_file, saving, faker, random, anonymizing, batch>>

NextThreads ==
    \E t \in Threads :
        \/ \E original \in Originals, entity_type \in EntityTypes,
                document \in Documents :
              ThreadLookup(t, original, entity_type, document)
        \/ \E tbl \in GenTables : ThreadResolve(t, tbl)
        \/ ThreadStoreForward(t)
        \/ ThreadStoreReverse(t)

SpecThreads == Init /\ [][NextThreads]_vars

\* -------------------------------------------------------------- lookups
\* store.get_fake(original)
GetFake(original) ==
    /\ ret' = Outcome("get_fake", original, get_fake(original_to_fake, original),
                      "", FALSE)
    /\ output_file' = AbsentFile
    /\ UNCHANGED <<original_to_fake, fake_to_original, mapping_file, saving, threads,
                   faker, random, anonymizing, batch>>

\* store.get_original(fake)
GetOriginal(fake) ==
    /\ ret' = Outcome("get_original", fake, get_original(fake_to_original, fake),
                      "", FALSE)
    /\ output_file' = AbsentFile
    /\ UNCHANGED <<original_to_fake, fake_to_original, mapping_file, saving, threads,
                   faker, random, anonymizing, batch>>

NextLookup ==
    \/ \E original \in Originals, entity_type \in EntityTypes, document \in Documents :
          GetOrCreateFake(original, entity_type, document)
    \/ \E original \in Originals : GetFake(original)
    \/ \E fake \in FakePool : GetOriginal(fake)

SpecLookup == Init /\ [][NextLookup]_vars

\* ------------------------------------------------ any entity type
\* Entity types a caller of get_or_create_fake can pass: those of the
\* detector and one the generator has no method for.
AnyEntityTypes == EntityTypes \cup {"UNKNOWN"}

NextAnyType ==
    \/ \E original \in Originals, entity_type \in AnyEntityTypes, document \in Documents :
          GetOrCreateFake(original, entity_type, document)
    \/ Save
    \/ NewMappingStore

SpecAnyType == Init /\ [][NextAnyType]_vars

\* ------------------------------------------------- anonymize to a PDF
\* anonymizer.anonymize_pdf(input_path, output_path, "pdf")
AnonymizePdfToPdf(text, detections) ==
    /\ Len(original_to_fake) + Len(detections) <= MaxEntries
    /\ \E tbls \in [1..Len(detections) -> GenTables],
          document \in Documents, now \in Times, pages_ok \in BOOLEAN,
          writable \in BOOLEAN :
          \E r \in {anonymize_pdf_to_pdf(Store, mapping_file, text, detections, tbls,
                                         document, now, pages_ok, writable)} :
              /\ original_to_fake' = r.store.original_to_fake
              /\ fake_to_original' = r.store.fake_to_original
              /\ mapping_file' = r.mapping_file
              /\ output_file' = r.output
              /\ ret' = Outcome("anonymize_pdf_to_pdf",
                                [text |-> text, detections |-> detections,
                                 success |-> r.success, now |-> now],
                                r.ret, r.raised, FALSE)
    /\ UNCHANGED <<saving, threads, faker, random, anonymizing, batch>>

NextPdf ==
    \E text \in PdfTexts : \E detections \in DetectionLists(text) :
        AnonymizePdfToPdf(text, detections)

SpecPdf == Init /\ [][NextPdf]_vars

\* ---------------------------------------------------- generate, alone
\* generator.generate(original_value, entity_type)
Generate(original_value, entity_type) ==
    /\ \E r \in {generate_call(random, original_value, entity_type)} :
          /\ random' = r.random
          /\ ret' = Outcome("generate", <<original_value, entity_type>>, r.value,
                            r.raised, FALSE)
    /\ output_file' = AbsentFile
    /\ UNCHANGED <<original_to_fake, fake_to_original, mapping_file, saving, threads,
                   faker, anonymizing, batch>>

NextGenerator ==
    \E original_value \in GeneratorInputs, entity_type \in AnyEntityTypes :
        Generate(original_value, entity_type)

SpecGenerator == InitGenerator /\ [][NextGenerator]_vars

\* generator.generate(original_value, "PHONE_NUMBER")
NextPhone ==
    \E original_value \in PhoneInputs : Generate(original_value, "PHONE_NUMBER")

SpecPhone == InitGenerator /\ [][NextPhone]_vars

\* generator.generate(original_value, "US_BANK_NUMBER")
NextBank ==
    \E original_value \in BankInputs : Generate(original_value, "US_BANK_NUMBER")

SpecBank == InitGenerator /\ [][NextBank]_vars

\* ------------------------------------------- the retries, one by one
\* store.get_or_create_fake(original, "PERSON", generator, document) with a
\* generator whose candidates are those of tbl.
GetOrCreateFakeRetrying(original, document) ==
    /\ Len(original_to_fake) < MaxEntries
    /\ \E tbl \in LongTables, now \in Times :
          \E r \in {get_or_create_fake_while(Store, original, "PERSON", tbl, document,
                                             now)} :
              /\ original_to_fake' = r.store.original_to_fake
              /\ fake_to_original' = r.store.fake_to_original
              /\ ret' = Outcome("get_or_create_fake_while",
                                [original |-> original,
                                 tbl |-> IF r.created THEN tbl ELSE <<>>,
                                 collision_count |-> r.collision_count],
                                r.ret, "", r.created)
    /\ output_file' = AbsentFile
    /\ UNCHANGED <<mapping_file, saving, threads, faker, random, anonymizing, batch>>

NextRetry ==
    \E original \in Originals, document \in Documents :
        GetOrCreateFakeRetrying(original, document)

SpecRetry == Init /\ [][NextRetry]_vars

\* ------------------------------------- anonymize_pdf, statement by statement
\* Mutant of StatementAfter: the output is created before the mappings are
\* saved.
StatementAfterOutputFirst(pc) ==
    IF pc = "loop" THEN "output" ELSE IF pc = "output" THEN "save" ELSE "return"

\* The order of the statements of anonymize_pdf (txt output) after the
\* detections were found non-empty: the loop over the detections (lines
\* 64-76), self.mapping_store.save() (line 79), the output (lines 90-92),
\* the return (line 94).
StatementAfter(pc) ==
    IF pc = "loop" THEN "save" ELSE IF pc = "save" THEN "output" ELSE "return"

\* What anonymize_pdf does on reaching statement pc: at "return" the call
\* ends with its result.
AnonymizeGoto(pc, locals) ==
    /\ anonymizing' = [locals EXCEPT !.pc = pc]
    /\ ret' = IF pc = "return"
              THEN Outcome("anonymize_pdf", locals.text,
                           <<Len(locals.detections), locals.detections>>, "", FALSE)
              ELSE ret

\* The tables of a generator that gives one candidate at every retry.
SteadyTables == {[c \in 0..GenDepth |-> fake] : fake \in FakePool}

\* The detections of one entity type.
PersonDetectionLists(text) ==
    {ds \in DetectionLists(text) : \A i \in 1..Len(ds) : ds[i].entity_type = "PERSON"}

\* Lines 49-76: extract, detect, the no-detection return, and the loop of
\* get_or_create_fake calls, of the first call on the store.  The output
\* path holds nothing yet.
AnonymizeLoop(text, detections) ==
    /\ anonymizing.pc = "idle"
    /\ Len(original_to_fake) + Len(detections) <= MaxEntries
    /\ IF detections = <<>>
       THEN /\ output_file' = TextFile(text)
            /\ anonymizing' = [pc |-> "return", text |-> text, detections |-> <<>>,
                               replacements |-> EmptyDict]
            /\ ret' = Outcome("anonymize_pdf", text, <<0, <<>>>>, "", FALSE)
            /\ UNCHANGED <<original_to_fake, fake_to_original>>
       ELSE \E tbls \in [1..Len(detections) -> SteadyTables],
               document \in Documents, now \in Times :
               \E l \in {DetectionLoop(Store, EmptyDict, detections, tbls, document,
                                        now)} :
                   /\ original_to_fake' = l.store.original_to_fake
                   /\ fake_to_original' = l.store.fake_to_original
                   /\ output_file' = AbsentFile
                   /\ AnonymizeGoto(StatementAfter("loop"),
                                    [pc |-> "loop", text |-> text,
                                     detections |-> detections,
                                     replacements |-> l.replacements])
    /\ UNCHANGED <<mapping_file, saving, threads, faker, random, batch>>

\* Line 79: self.mapping_store.save() returns.
AnonymizeSave ==
    /\ anonymizing.pc = "save"
    /\ \E now \in Times : mapping_file' = save(Store, now)
    /\ AnonymizeGoto(StatementAfter("save"), anonymizing)
    /\ UNCHANGED <<original_to_fake, fake_to_original, output_file, saving, threads,
                   faker, random, batch>>

\* Line 79: self.mapping_store.save() raises (the directory cannot be made,
\* the file cannot be opened, or json.dump fails part way); the exception
\* leaves anonymize_pdf.
AnonymizeSaveRaises ==
    /\ anonymizing.pc = "save"
    /\ mapping_file' \in {mapping_file, PartialFile}
    /\ anonymizing' = [anonymizing EXCEPT !.pc = "raised"]
    /\ ret' = Outcome("anonymize_pdf", anonymizing.text, None, "OSError", FALSE)
    /\ UNCHANGED <<original_to_fake, fake_to_original, output_file, saving, threads,
                   faker, random, batch>>

\* Lines 90-92: _replace_text and save_text.
AnonymizeOutput ==
    /\ anonymizing.pc = "output"
    /\ output_file' = TextFile(replace_text(anonymizing.text, anonymizing.replacements))
    /\ AnonymizeGoto(StatementAfter("output"), anonymizing)
    /\ UNCHANGED <<original_to_fake, fake_to_original, mapping_file, saving, threads,
                   faker, random, batch>>

NextOrder ==
    \/ \E text \in PdfTexts : \E detections \in PersonDetectionLists(text) :
          AnonymizeLoop(text, detections)
    \/ AnonymizeSave
    \/ AnonymizeSaveRaises
    \/ AnonymizeOutput

SpecOrder == Init /\ [][NextOrder]_vars

\* ------------------------------------------------- a directory of PDFs
\* process_directory(input_dir, output_dir, mapping_file, "txt"), statement
\* by statement.  batch.pdf_files is the list the glob returned, batch.i the
\* number of passes of the for loop made, batch.results the list returned
\* at the end; batch.replacements keeps, for every pass, the replacements of
\* its anonymize_pdf call.

\* The text of a PDF of the directory: up to MaxDetections characters, each
\* one a value the detector finds.
BatchTexts == StringsOver(Letters, 0, MaxDetections)

\* detect_with_context on such a text: one PERSON detection per character,
\* in the order of the text.
BatchDetections(text) == [n \in 1..Len(text) |-> Detection(text, <<n - 1, n>>, "PERSON")]

\* The generator's tables for the detections of such a text, when
\* candidate[c] is what it gives for the value c at every retry.
BatchTables(text, candidate) ==
    [n \in 1..Len(text) |-> [c \in 0..GenDepth |-> candidate[text[n]]]]

\* The call of anonymize_pdf that raises: none, extract_text (a file that
\* is no readable PDF), mapping_store.save(), or save_text.
Faults == {"", "extract", "save", "output"}

\* anonymize_pdf with output_format "txt" where the call named by fault
\* raises; replacements is the local of that name.
anonymize_pdf_or_raise(st, file, text, detections, tbls, document, now, fault) ==
    IF fault = "extract"
    THEN [store |-> st, mapping_file |-> file, output |-> AbsentFile,
          replacements |-> EmptyDict, raised |-> "FileNotFoundError", ret |-> None]
    ELSE IF detections = <<>>
    THEN IF fault = "output"
         THEN [store |-> st, mapping_file |-> file, output |-> AbsentFile,
               replacements |-> EmptyDict, raised |-> "OSError", ret |-> None]
         ELSE [store |-> st, mapping_file |-> file, output |-> TextFile(text),
               replacements |-> EmptyDict, raised |-> "", ret |-> <<0, <<>>>>]
    ELSE LET l == DetectionLoop(st, EmptyDict, detections, tbls, document, now)
         IN  IF fault = "save"
             THEN [store |-> l.store, mapping_file |-> file, output |-> AbsentFile,
                   replacements |-> l.replacements, raised |-> "OSError",
                   ret |-> None]
             ELSE IF fault = "output"
             THEN [store |-> l.store, mapping_file |-> save(l.store, now),
                   output |-> AbsentFile, replacements |-> l.replacements,
                   raised |-> "OSError", ret |-> None]
             ELSE [store |-> l.store, mapping_file |-> save(l.store, now),
                   output |-> TextFile(replace_text(text, l.replacements)),
                   replacements |-> l.replacements, raised |-> "",
                   ret |-> <<Len(detections), detections>>]

\* list(input_dir.glob("**/*.pdf")) of a directory holding total PDFs: the
\* n-th path found is n.
PdfFiles(total) == [n \in 1..total |-> n]

\* str(e) of an exception of class raised: its message, a string.
ExceptionText(raised) == <<raised>>

\* A loop that appends a result only for a call that returned.
AppendResultOnSuccess(results, pdf_path, r) ==
    IF r.raised = "" THEN Append(results, <<pdf_path, r.ret[1], None>>) ELSE results

\* The try statement of the for loop, after anonymize_pdf ended as r.
AppendResult(results, pdf_path, r) ==
    IF r.raised = ""
    THEN Append(results, <<pdf_path, r.ret[1], None>>)
    ELSE Append(results, <<pdf_path, 0, ExceptionText(r.raised)>>)

\* Lines 184-190: the glob, the return for a directory without PDFs, and
\* otherwise results = [] and the one Anonymizer of the call, its store
\* loaded from mapping_file.
ProcessDirectory(total) ==
    /\ batch.pc = "idle"
    /\ IF total = 0
       THEN /\ batch' = [pc |-> "return", pdf_files |-> <<>>, i |-> 0,
                         results |-> <<>>, replacements |-> <<>>]
            /\ ret' = Outcome("process_directory", total, <<>>, "", FALSE)
            /\ UNCHANGED <<original_to_fake, fake_to_original>>
       ELSE \E now \in Times : \E st \in {load(mapping_file, now)} :
               /\ original_to_fake' = st.original_to_fake
               /\ fake_to_original' = st.fake_to_original
               /\ batch' = [pc |-> "for", pdf_files |-> PdfFiles(total), i |-> 0,
                            results |-> <<>>, replacements |-> <<>>]
               /\ UNCHANGED ret
    /\ UNCHANGED <<mapping_file, output_file, saving, threads, faker, random,
                   anonymizing>>

\* Lines 192-209: one pass of the for loop, on a PDF whose text is text;
\* output_file is the output path of that PDF.  The generator is consulted
\* only for a value the store does not hold.
ProcessPdf(text, fault) ==
    /\ batch.pc = "for"
    /\ batch.i < Len(batch.pdf_files)
    /\ \E candidate \in IF \A n \in 1..Len(text) :
                                Truthy(get_fake(original_to_fake, <<text[n]>>))
                          THEN {CHOOSE f \in [Letters -> FakePool] : TRUE}
                          ELSE [Letters -> FakePool],
          document \in Documents,
          now \in Times :
          \E r \in {anonymize_pdf_or_raise(Store, mapping_file, text,
                                           BatchDetections(text),
                                           BatchTables(text, candidate), document,
                                           now, fault)} :
              /\ original_to_fake' = r.store.original_to_fake
              /\ fake_to_original' = r.store.fake_to_original
              /\ mapping_file' = r.mapping_file
              /\ output_file' = r.output
              /\ ret' = Outcome("anonymize_pdf", text, r.ret, r.raised, FALSE)
              /\ batch' = [batch EXCEPT
                              !.i = @ + 1,
                              !.results = AppendResult(@, batch.pdf_files[batch.i + 1], r),
                              !.replacements = Append(@, r.replacements)]
    /\ UNCHANGED <<saving, threads, faker, random, anonymizing>>

\* Lines 211-214: the loop is through; return results.
ProcessDirectoryReturn ==
    /\ batch.pc = "for"
    /\ batch.i = Len(batch.pdf_files)
    /\ batch' = [batch EXCEPT !.pc = "return"]
    /\ ret' = Outcome("process_directory", Len(batch.pdf_files), batch.results, "",
                      FALSE)
    /\ UNCHANGED <<original_to_fake, fake_to_original, mapping_file, output_file,
                   saving, threads, faker, random, anonymizing>>

NextBatch ==
    \/ \E total \in 0..MaxPdfs : ProcessDirectory(total)
    \/ \E text \in BatchTexts, fault \in Faults : ProcessPdf(text, fault)
    \/ ProcessDirectoryReturn

SpecBatch == Init /\ [][NextBatch]_vars

\* ------------------------------------------- reverse_pdf, as a whole
\* The call of reverse_pdf that raises besides the ValueError of an empty
\* reverse map: none, the reading of input_path, or the writing of
\* output_path.
ReverseFaults == {"", "read", "write"}

\* A reverse_pdf that saves the store once it has written its output.
reverse_pdf_call_saving(st, file, rnd, text, now, fault) ==
    LET r == reverse_pdf(text, get_all_reverse_mappings(st))
    IN  IF fault = "read"
        THEN [store |-> st, mapping_file |-> file, random |-> rnd,
              output |-> AbsentFile, raised |-> "FileNotFoundError", ret |-> None]
        ELSE IF r.raised # ""
        THEN [store |-> st, mapping_file |-> file, random |-> rnd,
              output |-> AbsentFile, raised |-> r.raised, ret |-> None]
        ELSE IF fault = "write"
        THEN [store |-> st, mapping_file |-> file, random |-> rnd,
              output |-> AbsentFile, raised |-> "OSError", ret |-> None]
        ELSE [store |-> st, mapping_file |-> save(st, now), random |-> rnd,
              output |-> TextFile(r.restored_text), raised |-> "",
              ret |-> r.replacements_made]

\* Anonymizer.reverse_pdf(input_path, output_path, "txt") as a step of the
\* whole program: what it leaves of the store st, of the mapping file file
\* and of the generator's random source rnd, what it writes to output_path,
\* and how it ends.  It reads the store through the copy
\* get_all_reverse_mappings returns and calls neither the generator, nor
\* the detector, nor save().
reverse_pdf_call(st, file, rnd, text, now, fault) ==
    LET r == reverse_pdf(text, get_all_reverse_mappings(st))
    IN  IF fault = "read"
        THEN [store |-> st, mapping_file |-> file, random |-> rnd,
              output |-> AbsentFile, raised |-> "FileNotFoundError", ret |-> None]
        ELSE IF r.raised # ""
        THEN [store |-> st, mapping_file |-> file, random |-> rnd,
              output |-> AbsentFile, raised |-> r.raised, ret |-> None]
        ELSE IF fault = "write"
        THEN [store |-> st, mapping_file |-> file, random |-> rnd,
              output |-> AbsentFile, raised |-> "OSError", ret |-> None]
        ELSE [store |-> st, mapping_file |-> file, random |-> rnd,
              output |-> TextFile(r.restored_text), raised |-> "",
              ret |-> r.replacements_made]

ReversePdfCall(text, fault) ==
    /\ \E now \in Times :
          \E r \in {reverse_pdf_call(Store, mapping_file, random, text, now, fault)} :
              /\ original_to_fake' = r.store.original_to_fake
              /\ fake_to_original' = r.store.fake_to_original
              /\ mapping_file' = r.mapping_file
              /\ random' = r.random
              /\ output_file' = r.output
              /\ ret' = Outcome("reverse_pdf", text, r.ret, r.raised, FALSE)
    /\ UNCHANGED <<saving, threads, faker, anonymizing, batch>>

NextReverse ==
    \/ \E original \in Originals, entity_type \in EntityTypes, document \in Documents :
          GetOrCreateFake(original, entity_type, document)
    \/ Save
    \/ \E text \in Texts, fault \in ReverseFaults : ReversePdfCall(text, fault)

SpecReverse == Init /\ [][NextReverse]_vars

\* ------------------------------------- mapping files from somewhere else
\* Records a "mappings" list of a file can hold: complete PIIMapping records
\* (the original of one has surrounding whitespace), one without its
\* timestamp and one with a field PIIMapping does not have.
FileEntries ==
    {PIIMapping(original, fake, "PERSON", "a.pdf", now) :
        original \in {<<"a">>, <<"b">>, <<" ", "a", " ">>}, fake \in FakePool,
        now \in Times}
    \cup {[original |-> <<"a">>, fake |-> <<"a">>, entity_type |-> "PERSON",
           document |-> "a.pdf"],
          [original |-> <<"a">>, fake |-> <<"a">>, entity_type |-> "PERSON",
           document |-> "a.pdf", timestamp |-> "2026-01-01T00:00:00", score |-> 1]}

\* A dict str -> str with up to MaxEntries keys.
StrDicts(keys, values) ==
    {d \in UNION {[1..n -> [k : keys, v : values]] : n \in 0..MaxEntries} :
        \A i, j \in 1..Len(d) : d[i].k = d[j].k => i = j}

\* pseudo_to_original as the old ReversibleAnonymizer fills it next to
\* original_to_pseudo.
RECURSIVE PseudoToOriginal(_)
PseudoToOriginal(o2p) ==
    IF o2p = <<>> THEN EmptyDict
    ELSE DictSet(PseudoToOriginal(SubSeq(o2p, 1, Len(o2p) - 1)),
                 o2p[Len(o2p)].v, o2p[Len(o2p)].k)

\* A file holding only the two maps of the old format.
LegacyFile(o2p) ==
    JsonFile([original_to_pseudo |-> o2p, pseudo_to_original |-> PseudoToOriginal(o2p)])

\* What can stand at mapping_file when a MappingStore is constructed.
ForeignFiles ==
    {AbsentFile, PartialFile, JsonFile(<<>>)}
    \cup {JsonNonObjectFile(kind) : kind \in {"list", "string", "number", "null"}}
    \cup {JsonFile([mappings |-> ms]) :
            ms \in UNION {[1..n -> FileEntries] : n \in 0..MaxEntries}}
    \cup {LegacyFile(o2p) : o2p \in StrDicts({<<"a">>, <<"b">>}, FakePool)}

\* Something other than this MappingStore puts a file at mapping_file, where
\* none was.
PutMappingFile(file) ==
    /\ mapping_file = AbsentFile
    /\ mapping_file' = file
    /\ ret' = Outcome("put_file", None, None, "", FALSE)
    /\ output_file' = AbsentFile
    /\ UNCHANGED <<original_to_fake, fake_to_original, saving, threads, faker, random, anonymizing, batch>>

\* save() on the store a constructor call has returned.
SaveConstructed ==
    /\ ret.op = "__init__"
    /\ ret.raised = ""
    /\ Save

NextLoad ==
    \/ \E file \in ForeignFiles : PutMappingFile(file)
    \/ NewMappingStore
    \/ SaveConstructed

SpecLoad == Init /\ [][NextLoad]_vars

\* ================================================================ claims
\* s without its leading and trailing whitespace, by position.
TrimOf(s) ==
    LET inked == {i \in 1..Len(s) : s[i] \notin Whitespace}
    IN  IF inked = {} THEN <<>>
        ELSE SubSeq(s, CHOOSE i \in inked : \A j \in inked : i <= j,
                       CHOOSE i \in inked : \A j \in inked : j <= i)

Entries == {original_to_fake[i].v : i \in 1..Len(original_to_fake)}

\* No two entries with distinct originals carry the same fake.
FakesDistinct ==
    \A e1, e2 \in Entries : e1.original # e2.original => e1.fake # e2.fake

\* C1: in every state reachable from an empty store by get_or_create_fake
\* calls, each trimmed original has at most one entry and no two entries
\* with distinct trimmed originals carry the same fake.
C1_Bijection ==
    /\ \A i, j \in 1..Len(original_to_fake) :
          original_to_fake[i].v.original = original_to_fake[j].v.original => i = j
    /\ FakesDistinct

\* C2: a get_or_create_fake call returns the fake of the entry its trimmed
\* original has after the call, and when the trimmed original already had an
\* entry the call returns that entry's fake and leaves the store as it was,
\* whatever entity type and document it is given: every call for one trimmed
\* original returns the same fake and only the first adds an entry.
C2_IdempotentCreation ==
    [][ret'.op = "get_or_create_fake" =>
          LET key == TrimOf(ret'.arg) IN
          /\ DictHas(original_to_fake', key)
          /\ ret'.value = DictGet(original_to_fake', key).fake
          /\ DictHas(original_to_fake, key) =>
                /\ ret'.value = DictGet(original_to_fake, key).fake
                /\ original_to_fake' = original_to_fake
                /\ fake_to_original' = fake_to_original]_vars

\* C2 witness: a call whose original has surrounding whitespace found its
\* value's entry in a store that also holds entries of other values.
C2_Witness ==
    /\ ret.op = "get_or_create_fake"
    /\ ~ret.created
    /\ ret.arg # TrimOf(ret.arg)
    /\ Len(original_to_fake) >= 2

\* C4: fake_to_original is exactly the inverse of original_to_fake: its keys
\* are the stored fakes and it sends every entry's fake to that entry's
\* original.
C4_ReverseIndexIsInverse ==
    /\ DictKeys(fake_to_original) = {e.fake : e \in Entries}
    /\ \A e \in Entries : DictGet(fake_to_original, e.fake) = e.original

\* C5: get_or_create_fake, save and reverse_pdf leave every existing entry
\* as it was, field by field.
C5_EntryImmutable ==
    [][ret'.op \in {"get_or_create_fake", "save", "reverse_pdf"} =>
          \A key \in DictKeys(original_to_fake) :
              /\ DictHas(original_to_fake', key)
              /\ DictGet(original_to_fake', key) = DictGet(original_to_fake, key)]_vars

\* C5 witness: a reversal that replaced something ran on a store with
\* several entries.
C5_Witness ==
    /\ ret.op = "reverse_pdf"
    /\ ret.raised = ""
    /\ ret.value >= 1
    /\ Len(original_to_fake) >= 2

\* C6: with an empty reverse index reverse_pdf raises its no-mappings
\* ValueError and writes no output.
C6_ReverseNeedsMappings ==
    (ret.op = "reverse_pdf" /\ fake_to_original = EmptyDict) =>
        /\ ret.raised = "ValueError"
        /\ output_file = AbsentFile

\* C6 witness: reverse_pdf was called on a store without mappings.
C6_Witness ==
    /\ ret.op = "reverse_pdf"
    /\ fake_to_original = EmptyDict
    /\ ret.raised = "ValueError"

\* C9: a store constructed from a saved file holds the saved entries and the
\* saved reverse index, and distinct originals have distinct fakes in it.
C9_ReloadKeepsBijection ==
    (ret.op = "__init__" /\ mapping_file.state = "json") =>
        /\ [i \in 1..Len(original_to_fake) |-> original_to_fake[i].v]
              = mapping_file.data.mappings
        /\ fake_to_original = mapping_file.data.pseudo_to_original
        /\ FakesDistinct

\* The detected values are pairwise different and their spans do not overlap.
DistinctNonOverlapping(detections) ==
    \A i, j \in 1..Len(detections) :
        i # j => /\ detections[i].value # detections[j].value
                 /\ \/ detections[i].end <= detections[j].start
                    \/ detections[j].end <= detections[i].start

\* C3: when anonymize_pdf ran on text T with distinct, non-overlapping
\* detected values, reverse_pdf on the text it wrote, against the same
\* store, writes exactly T.
C3_RoundTrip ==
    [][(/\ ret.op = "anonymize_pdf"
        /\ ret'.op = "reverse_pdf"
        /\ ret.value[1] >= 1
        /\ DistinctNonOverlapping(ret.value[2]))
       => /\ ret'.raised = ""
          /\ output_file'.text = ret.arg]_vars

\* C7: when the detected values are the whole text and a shorter value
\* inside it, the text anonymize_pdf writes is the fake of the whole text,
\* intact.
C7_LongerFakeIntact ==
    (/\ ret.op = "anonymize_pdf"
     /\ ret.value[1] = 2
     /\ \E i, j \in 1..2 :
           /\ ret.value[2][i].value = ret.arg
           /\ Len(ret.value[2][j].value) < Len(ret.arg))
    => output_file.text = DictGet(original_to_fake, ret.arg).fake

\* C8: a store constructed while a save() has the mapping file open, or
\* after that save() was interrupted, holds what the file held before the
\* save() or what the save() was writing.
C8_SaveAllOrNothing ==
    [][(/\ ret'.op = "__init__"
        /\ saving.pc # "idle"
        /\ saving' = saving
        /\ mapping_file' = mapping_file)
       => \E now \in Times :
             \/ /\ original_to_fake' = load(saving.before, now).original_to_fake
                /\ fake_to_original' = load(saving.before, now).fake_to_original
             \/ /\ original_to_fake' = load(JsonFile(saving.data), now).original_to_fake
                /\ fake_to_original' = load(JsonFile(saving.data), now).fake_to_original]_vars

\* C10: whenever no thread is inside get_or_create_fake, no two originals
\* share a fake and fake_to_original is the inverse of original_to_fake.
C10_ThreadSafe ==
    (\A t \in Threads : threads[t].pc = "idle") =>
        /\ FakesDistinct
        /\ DictKeys(fake_to_original) = {e.fake : e \in Entries}
        /\ \A e \in Entries : get_original(fake_to_original, e.fake) = e.original

\* C11: a MappingStore constructor call does not raise, and from a file that
\* is absent, does not parse, is not a JSON object or has a mappings record
\* of the wrong shape it leaves the store empty.
C11_LoadTolerant ==
    ret.op = "__init__" =>
        /\ ret.raised = ""
        /\ (\/ mapping_file.state # "json"
            \/ /\ "mappings" \in DOMAIN mapping_file.data
               /\ \E i \in 1..Len(mapping_file.data.mappings) :
                     DOMAIN mapping_file.data.mappings[i] # PIIMappingFields)
           => /\ original_to_fake = EmptyDict
              /\ fake_to_original = EmptyDict

\* The file holds the two maps of the old format and nothing else.
IsLegacy(file) ==
    /\ file.state = "json"
    /\ DOMAIN file.data = {"original_to_pseudo", "pseudo_to_original"}

\* entries, a list of PIIMapping records, has one UNKNOWN / migrated record
\* per key of o2p, in the order of o2p, with that key's pair.
MigratedFrom(entries, o2p) ==
    /\ Len(entries) = Len(o2p)
    /\ \A i \in 1..Len(o2p) :
          /\ entries[i].original = o2p[i].k
          /\ entries[i].fake = o2p[i].v
          /\ entries[i].entity_type = "UNKNOWN"
          /\ entries[i].document = "migrated"

\* C12: a store constructed from a file of the old format has one UNKNOWN /
\* migrated entry per key of original_to_pseudo, and a save() of that store
\* writes the mappings list with all these entries next to the two old maps,
\* which are the ones the file had.
C12_LegacyLoad ==
    [][/\ (ret'.op = "__init__" /\ IsLegacy(mapping_file')) =>
            /\ ret'.raised = ""
            /\ MigratedFrom([i \in 1..Len(original_to_fake') |-> original_to_fake'[i].v],
                            mapping_file'.data.original_to_pseudo)
            /\ \A i \in 1..Len(original_to_fake') :
                  original_to_fake'[i].k = original_to_fake'[i].v.original
       /\ (ret.op = "__init__" /\ IsLegacy(mapping_file) /\ ret'.op = "save") =>
            /\ mapping_file'.state = "json"
            /\ {"mappings", "original_to_pseudo", "pseudo_to_original"}
                  \subseteq DOMAIN mapping_file'.data
            /\ MigratedFrom(mapping_file'.data.mappings,
                            mapping_file.data.original_to_pseudo)
            /\ mapping_file'.data.original_to_pseudo
                  = mapping_file.data.original_to_pseudo
            /\ mapping_file'.data.pseudo_to_original
                  = mapping_file.data.pseudo_to_original]_vars

\* C12 witness: save() has written a file with two migrated entries.
C12_Witness ==
    /\ ret.op = "save"
    /\ mapping_file.state = "json"
    /\ "mappings" \in DOMAIN mapping_file.data
    /\ Len(mapping_file.data.mappings) = 2
    /\ \A i \in 1..2 : mapping_file.data.mappings[i].document = "migrated"

\* C13: every get_or_create_fake call returns a fake and raises nothing.
C13_AlwaysReturns ==
    ret.op = "get_or_create_fake" =>
        /\ ret.raised = ""
        /\ ret.value # None

\* C14: get_fake(v) returns the fake of the entry that the trimmed v has,
\* get_original(f) returns the original of the entry whose fake is f, and
\* neither changes the store.
C14_NormalizedLookups ==
    [][/\ ret'.op = "get_fake" =>
            /\ original_to_fake' = original_to_fake
            /\ fake_to_original' = fake_to_original
            /\ DictHas(original_to_fake, TrimOf(ret'.arg)) =>
                  ret'.value = DictGet(original_to_fake, TrimOf(ret'.arg)).fake
       /\ ret'.op = "get_original" =>
            /\ original_to_fake' = original_to_fake
            /\ fake_to_original' = fake_to_original
            /\ \A e \in Entries : e.fake = ret'.arg => ret'.value = e.original]_vars

\* C15: every entry's original, and every key of the forward index, is
\* non-empty and carries no leading or trailing whitespace.
C15_KeysNormalized ==
    /\ \A e \in Entries : e.original # <<>> /\ strip(e.original) = e.original
    /\ \A k \in DictKeys(original_to_fake) : k # <<>> /\ strip(k) = k

Pairs(d) == {<<d[i].k, d[i].v>> : i \in 1..Len(d)}

\* C17: the file save() wrote has version "2.0", one record per entry in
\* "mappings", and the old reader loads from it the forward map of the store
\* and, as pseudo_to_original, the inverse of that map.
C17_LegacyMapsConsistent ==
    ret.op = "save" =>
        /\ mapping_file.state = "json"
        /\ mapping_file.data.version = "2.0"
        /\ mapping_file.data.mappings
              = [i \in 1..Len(original_to_fake) |-> original_to_fake[i].v]
        /\ \E old \in {load_mappings(mapping_file)} :
              /\ Pairs(old.original_to_pseudo)
                    = {<<e.original, e.fake>> : e \in Entries}
              /\ Pairs(old.pseudo_to_original)
                    = {<<e.fake, e.original>> : e \in Entries}

\* The store after the step.
StoreNext == [original_to_fake |-> original_to_fake', fake_to_original |-> fake_to_original']

\* C18: get_mappings_list lists the entries in the order their originals
\* were first inserted: a call that creates a mapping adds its entry at the
\* end, a call that finds one and save() leave the list as it is, and a
\* store constructed from the file save() just wrote lists the same.
C18_ListingOrder ==
    [][/\ (ret'.op = "get_or_create_fake" /\ ret'.raised = "") =>
            IF ret'.created
            THEN \E entity_type \in EntityTypes, document \in Documents :
                    get_mappings_list(StoreNext)
                      = Append(get_mappings_list(Store),
                               [original |-> TrimOf(ret'.arg), fake |-> ret'.value,
                                type |-> entity_type, document |-> document])
            ELSE get_mappings_list(StoreNext) = get_mappings_list(Store)
       /\ ret'.op = "save" => get_mappings_list(StoreNext) = get_mappings_list(Store)
       /\ (ret.op = "save" /\ ret'.op = "__init__") =>
            get_mappings_list(StoreNext) = get_mappings_list(Store)]_vars

\* A store of two entries has been constructed from a saved file.
C18_Witness ==
    /\ ret.op = "__init__"
    /\ mapping_file.state = "json"
    /\ Len(get_mappings_list(Store)) = 2

\* The replacements dict anonymize_pdf has built, read back from the store.
RECURSIVE ReplacementsOf(_)
ReplacementsOf(detections) ==
    IF detections = <<>> THEN EmptyDict
    ELSE LET d == detections[Len(detections)] IN
         DictSet(ReplacementsOf(SubSeq(detections, 1, Len(detections) - 1)),
                 d.value, get_fake(original_to_fake, TrimOf(d.value)))

\* C19: when create_anonymized_pdf has returned False, anonymize_pdf raises
\* nothing, the output is the PDF create_pdf_from_text renders from
\* _replace_text(text, replacements), and the store, with the mappings of
\* the document, is the one in the mapping file.
C19_RewriteFailureNotFatal ==
    (ret.op = "anonymize_pdf_to_pdf" /\ ret.arg.success = "False") =>
        /\ ret.raised = ""
        /\ output_file
              = PdfFromText(replace_text(ret.arg.text, ReplacementsOf(ret.arg.detections)))
        /\ mapping_file = save(Store, ret.arg.now)
        /\ \A i \in 1..Len(ret.arg.detections) :
              DictHas(original_to_fake, TrimOf(ret.arg.detections[i].value))

IsDigits(s) == \A i \in 1..Len(s) : \E d \in 1..10 : DigitChars[d] = s[i]

\* (DDD) DDD-DDDD
ParenShape(v) ==
    /\ Len(v) = 14
    /\ v[1] = "(" /\ v[5] = ")" /\ v[6] = " " /\ v[10] = "-"
    /\ IsDigits(SubSeq(v, 2, 4)) /\ IsDigits(SubSeq(v, 7, 9))
    /\ IsDigits(SubSeq(v, 11, 14))

\* DDD-DDD-DDDD
HyphenShape(v) ==
    /\ Len(v) = 12
    /\ v[4] = "-" /\ v[8] = "-"
    /\ IsDigits(SubSeq(v, 1, 3)) /\ IsDigits(SubSeq(v, 5, 7))
    /\ IsDigits(SubSeq(v, 9, 12))

\* The generic phone format: what phone_number() gives on the seed of v.
GenericPhone(original, v) ==
    v = phone_number(seed_instance(0, get_seed_for_value(original))).value

PhoneCall == ret.op = "generate" /\ ret.arg[2] = "PHONE_NUMBER"

\* C20 as claimed: an original opening a parenthesis gets (DDD) DDD-DDDD,
\* every other original that hyphens split into three groups gets
\* DDD-DDD-DDDD, and every other original the generic phone format.
C20_PhoneShapingAsClaimed ==
    PhoneCall =>
        IF StartsWithChar(ret.arg[1], "(") THEN ParenShape(ret.value)
        ELSE IF HyphenCount(ret.arg[1]) = 2 THEN HyphenShape(ret.value)
        ELSE GenericPhone(ret.arg[1], ret.value)

\* C20, amended: an original opening a parenthesis gets (DDD) DDD-DDDD, every
\* other original that does not start with "+" and that hyphens split into
\* three groups gets DDD-DDD-DDDD, and every other original, those starting
\* with "+" among them, the generic phone format.
C20_PhoneShaping ==
    PhoneCall =>
        IF StartsWithChar(ret.arg[1], "(") THEN ParenShape(ret.value)
        ELSE IF HyphenCount(ret.arg[1]) = 2 /\ ~StartsWithChar(ret.arg[1], "+")
             THEN HyphenShape(ret.value)
        ELSE GenericPhone(ret.arg[1], ret.value)

\* A phone number of three hyphen-delimited groups has been given its fake.
C20_Witness ==
    /\ PhoneCall
    /\ HyphenCount(ret.arg[1]) = 2
    /\ ~StartsWithChar(ret.arg[1], "(")
    /\ ~StartsWithChar(ret.arg[1], "+")
    /\ HyphenShape(ret.value)

BankCall == ret.op = "generate" /\ ret.arg[2] = "US_BANK_NUMBER"

\* C21: the fake of a US_BANK_NUMBER is made of decimal digits only, as many
\* as the original has digits, or 10 when the original has none.
C21_BankNumberShape ==
    BankCall =>
        /\ ret.raised = ""
        /\ IsDigits(ret.value)
        /\ Len(ret.value) = IF DigitCount(ret.arg[1]) = 0 THEN 10
                             ELSE DigitCount(ret.arg[1])

\* An original of digits and other characters has been given its fake.
C21_Witness ==
    /\ BankCall
    /\ DigitCount(ret.arg[1]) > 0
    /\ DigitCount(ret.arg[1]) < Len(ret.arg[1])
    /\ Len(ret.value) = DigitCount(ret.arg[1])

\* A fake made by the exhaustion fallback: a candidate of the generator with
\* "_" and the attempt count appended (no candidate holds a "_").
IsFallbackFake(fake) == \E i \in 1..Len(fake) : fake[i] = "_"

\* C22: the fake a call stores from the exhaustion fallback is not a key of
\* the reverse index the call found, so no pair of it is overwritten.
C22_FallbackUnique ==
    [][(/\ ret'.op = "get_or_create_fake"
        /\ ret'.created
        /\ IsFallbackFake(ret'.value)) =>
            /\ ~DictHas(fake_to_original, ret'.value)
            /\ \A i \in 1..Len(fake_to_original) :
                  fake_to_original'[i] = fake_to_original[i]]_vars

\* The candidate of collision_count c is not a key of the reverse index.
Free(tbl, c) == ~DictHas(fake_to_original, tbl[c])

RECURSIVE ReplacedOnce(_, _)
ReplacedOnce(text, detections) ==
    IF text = <<>> THEN <<>>
    ELSE (IF \E i \in 1..Len(detections) : detections[i].value = <<Head(text)>>
          THEN get_fake(original_to_fake, <<Head(text)>>)
          ELSE <<Head(text)>>)
         \o ReplacedOnce(Tail(text), detections)

\* C24: when every detected value is one character, so that occurrences
\* cannot overlap, the text anonymize_pdf writes has every occurrence of every
\* detected value replaced exactly once by its fake, and nothing a
\* replacement put in is replaced again.
C24_ReplacedExactlyOnce ==
    (/\ ret.op = "anonymize_pdf"
     /\ ret.value[1] >= 1
     /\ \A i \in 1..Len(ret.value[2]) : Len(ret.value[2][i].value) = 1)
    => output_file.text = ReplacedOnce(ret.arg, ret.value[2])

\* The fakes of the reverse index that occur in text.
FakesIn(text) == {k \in DictKeys(fake_to_original) : Contains(text, k)}

\* C25: a reverse_pdf that returns has counted the fakes of the reverse
\* index that occur in its input text, once each; and when the input text is
\* one fake and holds no other, the text written is the original of that
\* fake.
C25_ReverseCount ==
    (ret.op = "reverse_pdf" /\ ret.raised = "") =>
        /\ ret.value = Cardinality(FakesIn(ret.arg))
        /\ FakesIn(ret.arg) = {ret.arg} =>
              output_file.text = get_original(fake_to_original, ret.arg)

\* The mapping file holds the entry of every detected value of the call.
Persisted ==
    /\ mapping_file.state = "json"
    /\ \A i \in 1..Len(anonymizing.replacements) :
          \E j \in 1..Len(mapping_file.data.mappings) :
             /\ mapping_file.data.mappings[j].original
                   = TrimOf(anonymizing.replacements[i].k)
             /\ mapping_file.data.mappings[j].fake = anonymizing.replacements[i].v

\* C26: while the output of an anonymize_pdf call with detections exists,
\* the mapping file holds the mappings of the call; and a call whose save()
\* raised has written no output.
C26_PersistBeforePublish ==
    /\ (/\ anonymizing.pc # "idle"
        /\ anonymizing.detections # <<>>
        /\ output_file.state = "text") => Persisted
    /\ anonymizing.pc = "raised" => output_file = AbsentFile

\* An anonymize_pdf call with detections has written its output.
C26_Witness ==
    /\ anonymizing.pc = "return"
    /\ anonymizing.detections # <<>>
    /\ output_file.state = "text"
    /\ ret.op = "anonymize_pdf"

\* The value of key in the replacements of pass n of the batch.
FakeInPass(n, key) == DictGet(batch.replacements[n], key)

\* C27: in a process_directory call, every pass of the loop has left one
\* result tuple, in the order of the PDFs found; the tuple of a pass whose
\* anonymize_pdf raised is (path, 0, message) and that of one that returned
\* is (path, count, None); the call returns only after the last PDF; a
\* value that got a fake in one pass has the same fake in every later pass
\* that sees it, and the one store of the call holds it.
C27_BatchIsolation ==
    batch.pc # "idle" =>
        /\ Len(batch.results) = batch.i
        /\ \A n \in 1..batch.i :
              /\ batch.results[n][1] = batch.pdf_files[n]
              /\ batch.results[n][3] # None => batch.results[n][2] = 0
        /\ (batch.i >= 1 /\ ret.op = "anonymize_pdf") =>
              batch.results[batch.i]
                 = IF ret.raised = ""
                   THEN <<batch.pdf_files[batch.i], ret.value[1], None>>
                   ELSE <<batch.pdf_files[batch.i], 0, ExceptionText(ret.raised)>>
        /\ batch.pc = "return" => batch.i = Len(batch.pdf_files)
        /\ \A n \in 1..batch.i : \A key \in DictKeys(batch.replacements[n]) :
              /\ get_fake(original_to_fake, key) = FakeInPass(n, key)
              /\ \A m \in 1..(n - 1) :
                    key \in DictKeys(batch.replacements[m]) =>
                        FakeInPass(m, key) = FakeInPass(n, key)

\* A batch has returned in which a pass raised after giving a value its
\* fake and a later pass returned having seen that value.
C27_Witness ==
    /\ batch.pc = "return"
    /\ \E m, n \in 1..batch.i :
          /\ m < n
          /\ batch.results[m][3] # None
          /\ batch.results[n][3] = None
          /\ batch.results[n][2] >= 1
          /\ DictKeys(batch.replacements[m]) \cap DictKeys(batch.replacements[n]) # {}

\* C28: a reverse_pdf call, whether it returns or raises, leaves both
\* indexes of the store, the mapping file and the generator's random source
\* as they were.
C28_ReverseFrame ==
    [][ret'.op = "reverse_pdf" =>
          /\ original_to_fake' = original_to_fake
          /\ fake_to_original' = fake_to_original
          /\ mapping_file' = mapping_file
          /\ random' = random
          /\ faker' = faker]_vars

\* A reverse_pdf has returned a count on a store whose entries the mapping
\* file does not hold.
C28_Witness ==
    /\ ret.op = "reverse_pdf"
    /\ ret.raised = ""
    /\ ret.value >= 1
    /\ output_file.state = "text"
    /\ fake_to_original # EmptyDict
    /\ mapping_file = AbsentFile

====
